---- MODULE Spec2Model ----
(***************************************************************************)
(* Model of the email tracker's registry and open-event pipeline           *)
(* (src/tracker/tracker.go, src/main.go, src/service/email_service.go).    *)
(*                                                                         *)
(* The Tracker keeps two plain Go maps, trackingData and trackingEvents,   *)
(* with no mutex.  Every gin request runs in its own goroutine and the     *)
(* sweeper runs in another, so every map access below is a step of its own *)
(* and the steps of different goroutines interleave freely.  Where two     *)
(* goroutines stand at accesses of the same Go map and one of them is a    *)
(* write, the Go runtime may also abort the process ("fatal error:         *)
(* concurrent map writes"): the Crash action.                              *)
(*                                                                         *)
(* Time is a counter of ticks.  Where the sweeper runs (Spec, SoloSpec) one *)
(* tick stands for the retention horizon divided by MaxAge, days against   *)
(* the seconds a request or a sweep lasts, so the clock ticks between the  *)
(* operations there; on the beacon path alone (OpenSpec) a tick is any     *)
(* advance of the clock, also while requests are in flight.                *)
(***************************************************************************)
EXTENDS Integers, Sequences, FiniteSets, TLC

\* ---------------------------------------------------------------- bounds
MaxTime == 2
MaxOpens == 2
MaxSends == 1
MaxSweeps == 1
MaxRegisters == 2
MaxChain == 2
MaxTokens == 3

\* The retention horizon handed to CleanupOldEntries, in ticks.
MaxAge == 1

\* Tracking identifiers that requests can carry and the generator can return.
Ids == {"a", "b"}

\* What GetGeoLocation can put in an event: nothing (the lookup failed) or
\* the country the service returned.
Countries == {"", "NG"}

\* What SendNotification can return.
NotifyErrors == {"nil", "smtp dispatch failed", "cancelled by context"}

\* Request-handling goroutines.
Procs == {1, 2}

VARIABLES
    now,             \* time.Now()
    crashed,         \* the runtime aborted the process
    trackingData,    \* Tracker.trackingData: identifier -> Email
    trackingEvents,  \* Tracker.trackingEvents: identifier -> history
    pc,              \* per handler: the statement it stands at
    trackingID,      \* per handler: the identifier of its request
    callNo,          \* per handler: the number of its TrackEmailOpen call
    geoInfo,         \* per handler: the GeoLocation GetGeoLocation returned
    exists,          \* per handler: the ok of the trackingData lookup
    email,           \* per handler: the *Email it holds
    event,           \* per handler: the TrackingEvent it built
    old,             \* per handler: the slice read for append
    opens,           \* TrackEmailOpen calls started so far
    sends,           \* SendTrackedEmail calls started so far
    sweeps,          \* CleanupOldEntries runs finished so far
    spc,             \* sweeper: the statement it stands at
    cutoff,          \* sweeper: cutoff of the running sweep
    visited,         \* sweeper: keys the running range loop has produced
    pending,         \* sweeper: keys present at loop start, not yet produced
    cur,             \* sweeper: the key the loop body works on
    curEvents,       \* sweeper: the events slice of the loop variable
    served,          \* history: the calls that wrote the image response
    evictedNow,      \* history: identifiers the running sweep evicted
    gone,            \* history: events the running sweep deleted by eviction
    tx,              \* per handler: the transmission goroutine of its dispatch
    nerr,            \* per handler: the error SendNotification returned
    quit,            \* main: the shutdown signal and the process exit
    rejected,        \* history: the error answers POST /api/send-email gave
    orphans,         \* transmission goroutines whose dispatch has returned
    request,         \* enrichment: the *http.Request handed to GetClientIP
    ip,              \* enrichment: what GetClientIP returned
    userAgent,       \* enrichment: the string handed to ParseUserAgent
    deviceInfo       \* enrichment: what ParseUserAgent returned

vars == <<now, crashed, trackingData, trackingEvents, pc, trackingID, callNo,
          geoInfo, exists, email, event, old, opens, sends, sweeps, spc,
          cutoff, visited, pending, cur, curEvents, served, evictedNow,
          gone, tx, nerr, quit, rejected, orphans, request, ip,
          userAgent, deviceInfo>>

hvars == <<pc, trackingID, callNo, geoInfo, exists, email, event, old>>
svars == <<spc, cutoff, visited, pending, cur, curEvents>>
gvars == <<served, evictedNow, gone>>
ovars == <<tx, nerr, quit, rejected, orphans>>
evars == <<request, ip, userAgent, deviceInfo>>

\* ------------------------------------------------------------ data types
\* models.Email: the fields the tracker reads.
Email(id, sentAt, notify) ==
    [ID |-> id, SentAt |-> sentAt, NotifyOnOpen |-> notify]

\* The zero value of a handler's email variable (a nil *Email).
NilEmail == Email("", 0, FALSE)

\* A faulty event constructor that fills in a placeholder when the geography
\* is empty; used to test that GeoFailureStillRecords notices it.
EventWithPlaceholderCountry(id, tid, emailID, country, openedAt) ==
    [ID |-> id, TrackingID |-> tid, EmailID |-> emailID,
     Country |-> IF country = "" THEN "unknown" ELSE country,
     OpenedAt |-> openedAt]

\* A faulty event constructor that mixes up the two identifier fields.
EventWithSwappedIds(id, tid, emailID, country, openedAt) ==
    [ID |-> id, TrackingID |-> emailID, EmailID |-> tid,
     Country |-> country, OpenedAt |-> openedAt]

\* models.TrackingEvent: Country stands for the four geography fields, which
\* are all copied from the same GeoLocation.
TrackingEvent(id, tid, emailID, country, openedAt) ==
    [ID |-> id, TrackingID |-> tid, EmailID |-> emailID,
     Country |-> country, OpenedAt |-> openedAt]

NilEvent == TrackingEvent(0, "", "", "", 0)

\* time.Time.Before and time.Time.After.
Before(t, u) == t < u
After(t, u) == t > u

\* ------------------------------------------------ abandoned transmissions
\* The capacity of the channel sendErr: make(chan error, 1).
SendErrCapacity == 1

\* The transmission goroutines SendNotification has left behind: how many
\* are still inside the transport, how many are blocked at the send to their
\* channel, and whether one has ended.
Orphans(running, blocked, ended) ==
    [running |-> running, blocked |-> blocked, ended |-> ended]

NoOrphans == Orphans(0, 0, FALSE)

\* A channel without a buffer: a send proceeds only with a receiver.
UnbufferedHasRoom(n) == n < 0

\* A send to sendErr proceeds without a receiver when the buffer has room
\* for it; n values are in the channel already.
ChannelHasRoom(n) == n < SendErrCapacity

\* ------------------------------------------------------------- enrichment
\* Header values a request can carry ("" when the header is missing; net/http
\* trims the value) and the parts a forwarded-for chain splits into at its
\* commas, which keep the blank that follows a comma.
HeaderValues == {"", "8.8.8.8", "2001:DB8::1", "10.0.0.1", "bogus"}
ChainParts == {"8.8.8.8", " 1.1.1.1", "10.0.0.1", "127.0.0.1", "224.0.0.1",
               "bogus"}

\* http.Request.RemoteAddr: host:port as the server sets it, also for a
\* link-local IPv6 peer, and the empty string of a request built by hand.
RemoteAddrs == {"8.8.8.8:4711", "10.0.0.1:4711", "[fe80::1%eth0]:4711", ""}

\* net.ParseIP: the textual IPv4 and IPv6 addresses; no surrounding blanks,
\* no zone.
ParseIP(str) ==
    str \in {"8.8.8.8", "1.1.1.1", "2001:DB8::1", "10.0.0.1", "127.0.0.1",
             "224.0.0.1"}

\* net.IP.String: the canonical text of a parsed address.
String(str) == IF str = "2001:DB8::1" THEN "2001:db8::1" ELSE str

\* net.IP.IsPrivate, IsLoopback, IsMulticast.
IsPrivate(str) == str = "10.0.0.1"
IsLoopback(str) == str = "127.0.0.1"
IsMulticast(str) == str = "224.0.0.1"

\* strings.TrimSpace.
TrimSpace(str) == IF str = " 1.1.1.1" THEN "1.1.1.1" ELSE str

\* net.SplitHostPort: the host and whether the split succeeded.
SplitHostPort(addr) ==
    CASE addr = "8.8.8.8:4711" -> [host |-> "8.8.8.8", ok |-> TRUE]
      [] addr = "10.0.0.1:4711" -> [host |-> "10.0.0.1", ok |-> TRUE]
      [] addr = "[fe80::1%eth0]:4711" -> [host |-> "fe80::1%eth0", ok |-> TRUE]
      [] OTHER -> [host |-> "", ok |-> FALSE]

\* The part of an *http.Request GetClientIP reads: three headers, the
\* forwarded-for header already split at its commas (<<>> for a missing
\* header), and the peer address.
HttpRequest(cf, real, xff, remoteAddr) ==
    [CF |-> cf, Real |-> real, XFF |-> xff, RemoteAddr |-> remoteAddr]

Chains == UNION {[1..n -> ChainParts] : n \in 0..MaxChain}

Requests ==
    {HttpRequest(cf, real, xff, addr) :
        cf \in HeaderValues, real \in HeaderValues, xff \in Chains,
        addr \in RemoteAddrs}

NoRequest == HttpRequest("", "", <<>>, "none")
NoIP == "none"

\* The loop of GetClientIP over the forwarded-for parts, from the right:
\* the first part that parses and is neither private, loopback nor
\* multicast, trimmed; "" when the loop ends without one.
RECURSIVE RightmostPublic(_, _)
RightmostPublic(parts, i) ==
    IF i = 0 THEN ""
    ELSE IF /\ ParseIP(TrimSpace(parts[i]))
            /\ ~IsPrivate(TrimSpace(parts[i]))
            /\ ~IsLoopback(TrimSpace(parts[i]))
            /\ ~IsMulticast(TrimSpace(parts[i]))
         THEN TrimSpace(parts[i])
         ELSE RightmostPublic(parts, i - 1)

\* The forwarded-for step of GetClientIP.
ForwardedFor(req) == RightmostPublic(req.XFF, Len(req.XFF))

\* utils.GetClientIP.
GetClientIP(req) ==
    IF req.CF # "" /\ ParseIP(req.CF) THEN String(req.CF)
    ELSE IF req.Real # "" /\ ParseIP(req.Real) THEN String(req.Real)
    ELSE IF ForwardedFor(req) # "" THEN ForwardedFor(req)
    ELSE IF SplitHostPort(req.RemoteAddr).ok
         THEN SplitHostPort(req.RemoteAddr).host
         ELSE req.RemoteAddr

\* The substrings ParseUserAgent looks for, and two of them as browsers
\* write them.  A user agent is the set of these it contains.
Tokens == {"mobile", "tablet", "chrome", "firefox", "safari", "edge", "opera",
           "windows", "mac os", "linux", "android", "iphone", "ipad",
           "Chrome", "Windows"}

UserAgents == {ua \in SUBSET Tokens : Cardinality(ua) <= MaxTokens}

\* A faulty lower-casing that leaves the string as it is.
KeepCase(ua) == ua

\* strings.ToLower.
ToLower(ua) ==
    {IF t = "Chrome" THEN "chrome" ELSE IF t = "Windows" THEN "windows" ELSE t :
        t \in ua}

\* strings.Contains.
Contains(ua, token) == token \in ua

\* utils.DeviceInfo.
DeviceInfo(deviceType, browser, os) ==
    [DeviceType |-> deviceType, Browser |-> browser, OS |-> os]

NilDevice == DeviceInfo("", "", "")

\* utils.ParseUserAgent.
ParseUserAgent(userAgentString) ==
    LET ua == ToLower(userAgentString)
    IN  DeviceInfo(
          IF Contains(ua, "mobile") THEN "Mobile"
          ELSE IF Contains(ua, "tablet") THEN "Tablet"
          ELSE "Desktop",
          IF Contains(ua, "chrome") THEN "Chrome"
          ELSE IF Contains(ua, "firefox") THEN "Firefox"
          ELSE IF Contains(ua, "safari") /\ ~Contains(ua, "chrome") THEN "Safari"
          ELSE IF Contains(ua, "edge") THEN "Edge"
          ELSE IF Contains(ua, "opera") THEN "Opera"
          ELSE "Unknown",
          IF Contains(ua, "windows") THEN "Windows"
          ELSE IF Contains(ua, "mac os") THEN "macOS"
          ELSE IF Contains(ua, "linux") THEN "Linux"
          ELSE IF Contains(ua, "android") THEN "Android"
          ELSE IF Contains(ua, "iphone") \/ Contains(ua, "ipad") THEN "iOS"
          ELSE "Unknown")

\* --------------------------------------------------------- map operations
\* m[k] = v on a Go map.
MapSet(m, k, v) == [x \in (DOMAIN m) \cup {k} |-> IF x = k THEN v ELSE m[x]]

\* delete(m, k) on a Go map.
MapDelete(m, k) == [x \in (DOMAIN m) \ {k} |-> m[x]]

\* make(map[string]...): a map with no keys.
EmptyMap == [x \in {} |-> 0]

\* t.trackingEvents[k] read as a value: a missing key yields the nil slice.
EventsAt(m, k) == IF k \in DOMAIN m THEN m[k] ELSE <<>>

\* The events a slice holds.
Events(slice) == {slice[k] : k \in 1..Len(slice)}

\* ------------------------------------------------------------ registry API
\* A faulty GetTrackingStats that returns the head of the history instead of
\* its tail; used to test that LatestIsLastOfAll tells the two apart.
HeadOfHistory(id) ==
    IF id \in DOMAIN trackingEvents /\ Len(trackingEvents[id]) > 0
    THEN <<trackingEvents[id][1]>>
    ELSE <<>>

\* Tracker.GetTrackingStats: the tail of the history, nil when the key is
\* missing or the slice empty.
GetTrackingStats(id) ==
    IF id \in DOMAIN trackingEvents /\ Len(trackingEvents[id]) > 0
    THEN <<trackingEvents[id][Len(trackingEvents[id])]>>
    ELSE <<>>

\* Tracker.GetAllTrackingEvents: the stored slice, nil when the key is missing.
GetAllTrackingEvents(id) ==
    IF id \in DOMAIN trackingEvents THEN trackingEvents[id] ELSE <<>>

\* What GET /api/tracking/:id answers when GetTrackingStats returns nil.
NotFound == [status |-> 404, body |-> <<>>]

\* Server.getTrackingInfo: 404 when GetTrackingStats returns nil, else 200
\* with the event it returned.
getTrackingInfo(id) ==
    IF GetTrackingStats(id) = <<>>
    THEN NotFound
    ELSE [status |-> 200, body |-> GetTrackingStats(id)]

\* The filter loop of CleanupOldEntries.
RecentEvents(events, c) ==
    SelectSeq(events, LAMBDA e : After(e.OpenedAt, c))

Init ==
    /\ now = 0
    /\ crashed = FALSE
    /\ trackingData = EmptyMap
    /\ trackingEvents = EmptyMap
    /\ pc = [p \in Procs |-> "idle"]
    /\ trackingID = [p \in Procs |-> ""]
    /\ callNo = [p \in Procs |-> 0]
    /\ geoInfo = [p \in Procs |-> ""]
    /\ exists = [p \in Procs |-> FALSE]
    /\ email = [p \in Procs |-> NilEmail]
    /\ event = [p \in Procs |-> NilEvent]
    /\ old = [p \in Procs |-> <<>>]
    /\ opens = 0
    /\ sends = 0
    /\ sweeps = 0
    /\ spc = "idle"
    /\ cutoff = 0
    /\ visited = {}
    /\ pending = {}
    /\ cur = ""
    /\ curEvents = <<>>
    /\ served = {}
    /\ evictedNow = {}
    /\ gone = {}
    /\ tx = [p \in Procs |-> "none"]
    /\ nerr = [p \in Procs |-> ""]
    /\ quit = "no"
    /\ rejected = {}
    /\ orphans = NoOrphans
    /\ request = NoRequest
    /\ ip = NoIP
    /\ userAgent = {}
    /\ deviceInfo = NilDevice

\* The values every handler local has between two requests.
Reset(p) ==
    /\ pc' = [pc EXCEPT ![p] = "idle"]
    /\ trackingID' = [trackingID EXCEPT ![p] = ""]
    /\ callNo' = [callNo EXCEPT ![p] = 0]
    /\ geoInfo' = [geoInfo EXCEPT ![p] = ""]
    /\ exists' = [exists EXCEPT ![p] = FALSE]
    /\ email' = [email EXCEPT ![p] = NilEmail]
    /\ event' = [event EXCEPT ![p] = NilEvent]
    /\ old' = [old EXCEPT ![p] = <<>>]
    /\ nerr' = [nerr EXCEPT ![p] = ""]
    /\ tx' = [tx EXCEPT ![p] = "none"]

\* ------------------------------------------------ GET /track/:id (an open)
\* Server.trackEmailOpen hands the path's identifier to TrackEmailOpen, which
\* resolves the client address and calls utils.GetGeoLocation.  That returns
\* the looked-up location, or on any failure a GeoLocation with only the IP
\* set (empty geography) and an error, which TrackEmailOpen prints and drops.
\* None of this touches the registry: it is one step with the lookup's
\* outcome as its input.
OpenStart(p, id, country) ==
    /\ ~crashed
    /\ pc[p] = "idle"
    /\ opens < MaxOpens
    /\ opens' = opens + 1
    /\ pc' = [pc EXCEPT ![p] = "lookup"]
    /\ trackingID' = [trackingID EXCEPT ![p] = id]
    /\ callNo' = [callNo EXCEPT ![p] = opens + 1]
    /\ geoInfo' = [geoInfo EXCEPT ![p] = country]
    /\ UNCHANGED <<now, crashed, trackingData, trackingEvents, exists, email,
                   event, old, sends, sweeps>>
    /\ UNCHANGED svars
    /\ UNCHANGED gvars
    /\ UNCHANGED ovars
    /\ UNCHANGED evars

\* emailID is email.ID when the lookup found a message, "" otherwise.
EmailIDOf(found, e) == IF found THEN e.ID ELSE ""

\* email, exists := t.trackingData[trackingID], then
\* event := &models.TrackingEvent{..., OpenedAt: time.Now(), ...}.
\* utils.GenerateUUID draws 128 random bits; the model gives each call its own
\* number.
Lookup(p) ==
    /\ ~crashed
    /\ pc[p] = "lookup"
    /\ LET found == trackingID[p] \in DOMAIN trackingData
           e == IF found THEN trackingData[trackingID[p]] ELSE NilEmail
       IN /\ exists' = [exists EXCEPT ![p] = found]
          /\ email' = [email EXCEPT ![p] = e]
          /\ event' = [event EXCEPT ![p] =
                          TrackingEvent(callNo[p], trackingID[p],
                                        EmailIDOf(found, e), geoInfo[p], now)]
    /\ pc' = [pc EXCEPT ![p] = "appendRead"]
    /\ UNCHANGED <<now, crashed, trackingData, trackingEvents, trackingID,
                   callNo, geoInfo, old, opens, sends, sweeps>>
    /\ UNCHANGED svars
    /\ UNCHANGED gvars
    /\ UNCHANGED ovars
    /\ UNCHANGED evars

\* The read of t.trackingEvents[trackingID] inside the append statement.
AppendRead(p) ==
    /\ ~crashed
    /\ pc[p] = "appendRead"
    /\ old' = [old EXCEPT ![p] = EventsAt(trackingEvents, trackingID[p])]
    /\ pc' = [pc EXCEPT ![p] = "appendWrite"]
    /\ UNCHANGED <<now, crashed, trackingData, trackingEvents, trackingID,
                   callNo, geoInfo, exists, email, event, opens, sends, sweeps>>
    /\ UNCHANGED svars
    /\ UNCHANGED gvars
    /\ UNCHANGED ovars
    /\ UNCHANGED evars

\* A faulty notification condition that ignores the message's preference;
\* used to test that NotifyOnlyWhenEnabled notices a dispatch nobody chose.
NotifyIfRegistered(p) == exists[p]

\* A faulty notification condition that ignores the lookup's outcome; used to
\* test that OwnerlessOpenSucceeds notices a notification for no message.
NotifyAlways(p) == TRUE

\* The notification condition: exists && email.NotifyOnOpen.
ShouldNotify(p) == exists[p] /\ email[p].NotifyOnOpen

\* A faulty TrackEmailOpen that goes on to the notification without having
\* stored the event.
AppendSkipped(p) ==
    /\ ~crashed
    /\ pc[p] = "appendWrite"
    /\ old' = [old EXCEPT ![p] = <<>>]
    /\ pc' = [pc EXCEPT ![p] = IF ShouldNotify(p) THEN "notify" ELSE "respond"]
    /\ UNCHANGED <<now, crashed, trackingData, trackingEvents, trackingID,
                   callNo, geoInfo, exists, email, event, opens, sends, sweeps>>
    /\ UNCHANGED svars
    /\ UNCHANGED gvars
    /\ UNCHANGED ovars
    /\ UNCHANGED evars

\* t.trackingEvents[trackingID] = append(<slice read>, event)
AppendWrite(p) ==
    /\ ~crashed
    /\ pc[p] = "appendWrite"
    /\ trackingEvents' =
          MapSet(trackingEvents, trackingID[p], Append(old[p], event[p]))
    /\ old' = [old EXCEPT ![p] = <<>>]
    /\ pc' = [pc EXCEPT ![p] = IF ShouldNotify(p) THEN "notify" ELSE "respond"]
    /\ UNCHANGED <<now, crashed, trackingData, trackingID, callNo, geoInfo,
                   exists, email, event, opens, sends, sweeps>>
    /\ UNCHANGED svars
    /\ UNCHANGED gvars
    /\ UNCHANGED ovars
    /\ UNCHANGED evars

\* TrackEmailOpen calls t.notificationSender.SendNotification with a context
\* of 10 seconds.  SendNotification renders the template (an error there is
\* returned at once), then starts the transmission in a goroutine of its own
\* that will put its result into a channel of capacity one.
Dispatch(p, rendered) ==
    /\ ~crashed
    /\ pc[p] = "notify"
    /\ IF rendered
       THEN /\ tx' = [tx EXCEPT ![p] = "running"]
            /\ pc' = [pc EXCEPT ![p] = "select"]
            /\ UNCHANGED nerr
       ELSE /\ nerr' = [nerr EXCEPT ![p] = "template failed"]
            /\ pc' = [pc EXCEPT ![p] = "respond"]
            /\ UNCHANGED tx
    /\ UNCHANGED <<now, crashed, trackingData, trackingEvents, trackingID,
                   callNo, geoInfo, exists, email, event, old, opens, sends,
                   sweeps, quit, rejected>>
    /\ UNCHANGED svars
    /\ UNCHANGED gvars
    /\ UNCHANGED evars
    /\ UNCHANGED orphans

\* The transport of handler p's dispatch returns, with or without an error,
\* while the dispatch waits in its select: the goroutine puts the result into
\* the channel and ends.  Nothing obliges the transport to answer.
Transmit(p, ok) ==
    /\ ~crashed
    /\ tx[p] = "running"
    /\ tx' = [tx EXCEPT ![p] = IF ok THEN "sent" ELSE "failed"]
    /\ UNCHANGED <<now, crashed, trackingData, trackingEvents, opens, sends,
                   sweeps, nerr, quit, rejected>>
    /\ UNCHANGED hvars
    /\ UNCHANGED svars
    /\ UNCHANGED gvars
    /\ UNCHANGED evars
    /\ UNCHANGED orphans

\* The transport of an abandoned transmission returns and the goroutine
\* executes its send to sendErr, which nobody receives from any more: it
\* ends if the channel takes the value, and stays blocked if not.
OrphanReturns ==
    /\ ~crashed
    /\ orphans.running > 0
    /\ orphans' = IF ChannelHasRoom(0)
                  THEN Orphans(orphans.running - 1, orphans.blocked, TRUE)
                  ELSE Orphans(orphans.running - 1, orphans.blocked + 1,
                               orphans.ended)
    /\ UNCHANGED <<now, crashed, trackingData, trackingEvents, opens, sends,
                   sweeps, tx, nerr, quit, rejected>>
    /\ UNCHANGED hvars
    /\ UNCHANGED svars
    /\ UNCHANGED gvars
    /\ UNCHANGED evars

\* A faulty select that reads ctx.Done() only once the transmission has
\* answered; used to test that DispatchReturnsOnDeadline notices the wait.
WaitForTransmission(p, err) ==
    /\ ~crashed
    /\ pc[p] = "select"
    /\ tx[p] # "running"
    /\ \/ err = "cancelled by context"
       \/ err = "nil" /\ tx[p] = "sent"
       \/ err = "smtp dispatch failed" /\ tx[p] = "failed"
    /\ nerr' = [nerr EXCEPT ![p] = err]
    /\ tx' = [tx EXCEPT ![p] = "none"]
    /\ pc' = [pc EXCEPT ![p] = "respond"]
    /\ UNCHANGED <<now, crashed, trackingData, trackingEvents, trackingID,
                   callNo, geoInfo, exists, email, event, old, opens, sends,
                   sweeps, quit, rejected>>
    /\ UNCHANGED svars
    /\ UNCHANGED gvars
    /\ UNCHANGED evars
    /\ UNCHANGED orphans

\* A faulty return that takes the event of the open back out of the history
\* when the dispatch did not succeed; used to test that
\* FailedNotificationKeepsRegistry notices the rollback.
RollBackOnError(p, err) ==
    /\ ~crashed
    /\ pc[p] = "select"
    /\ \/ err = "cancelled by context"
       \/ err = "nil" /\ tx[p] = "sent"
       \/ err = "smtp dispatch failed" /\ tx[p] = "failed"
    /\ nerr' = [nerr EXCEPT ![p] = err]
    /\ tx' = [tx EXCEPT ![p] = "none"]
    /\ orphans' = IF tx[p] = "running"
                  THEN [orphans EXCEPT !.running = @ + 1]
                  ELSE orphans
    /\ pc' = [pc EXCEPT ![p] = "respond"]
    /\ trackingEvents' =
          IF err = "nil"
          THEN trackingEvents
          ELSE MapSet(trackingEvents, trackingID[p],
                      SelectSeq(EventsAt(trackingEvents, trackingID[p]),
                                LAMBDA e : e # event[p]))
    /\ UNCHANGED <<now, crashed, trackingData, trackingID, callNo, geoInfo,
                   exists, email, event, old, opens, sends, sweeps, quit,
                   rejected>>
    /\ UNCHANGED svars
    /\ UNCHANGED gvars
    /\ UNCHANGED evars

\* The select of SendNotification returns err to TrackEmailOpen, which prints
\* it and goes on: the context's error as soon as ctx.Done() is readable
\* (deadline or cancellation), whatever the transmission is doing; otherwise
\* the transmission's result once it is in the channel.
SendNotification(p, err) ==
    /\ ~crashed
    /\ pc[p] = "select"
    /\ \/ err = "cancelled by context"
       \/ err = "nil" /\ tx[p] = "sent"
       \/ err = "smtp dispatch failed" /\ tx[p] = "failed"
    /\ nerr' = [nerr EXCEPT ![p] = err]
    /\ tx' = [tx EXCEPT ![p] = "none"]
    /\ orphans' = IF tx[p] = "running"
                  THEN [orphans EXCEPT !.running = @ + 1]
                  ELSE orphans
    /\ pc' = [pc EXCEPT ![p] = "respond"]
    /\ UNCHANGED <<now, crashed, trackingData, trackingEvents, trackingID,
                   callNo, geoInfo, exists, email, event, old, opens, sends,
                   sweeps, quit, rejected>>
    /\ UNCHANGED svars
    /\ UNCHANGED gvars
    /\ UNCHANGED evars

\* w.Write(gifData), and the handler returns.
Respond(p) ==
    /\ ~crashed
    /\ pc[p] = "respond"
    /\ served' = served \cup {callNo[p]}
    /\ Reset(p)
    /\ UNCHANGED <<now, crashed, trackingData, trackingEvents, opens, sends,
                   sweeps, evictedNow, gone, quit, rejected>>
    /\ UNCHANGED svars
    /\ UNCHANGED evars
    /\ UNCHANGED orphans

\* ------------------------------------------- POST /api/send-email (a send)
\* An error answer of Server.sendEmail: the step that failed and the HTTP
\* status.
Reply(cause, status) == [cause |-> cause, status |-> status]

\* The steps of Server.sendEmail and SendTrackedEmail that can fail, in the
\* order the code runs them: binding the JSON body, validating the
\* recipients, generating the identifier, embedding the pixel, sending.
SendFailures == {"bind", "recipient", "generate", "embed", "smtp"}

\* A faulty handler that answers every failure as a server error.
StatusAlwaysServerError(cause) == 500

\* The status Server.sendEmail answers when the named step fails: 400 for the
\* caller's input, 500 for every error SendTrackedEmail returns.
SendEmailStatus(cause) ==
    IF cause \in {"bind", "recipient"} THEN 400 ELSE 500

\* A faulty send path that registers the message before it sends it and
\* leaves the entry behind when a later step fails.
FailsAfterRegistering(p, cause) ==
    /\ ~crashed
    /\ pc[p] = "idle"
    /\ Reply(cause, SendEmailStatus(cause)) \notin rejected
    /\ rejected' = rejected \cup {Reply(cause, SendEmailStatus(cause))}
    /\ trackingData' = IF cause \in {"embed", "smtp"}
                          THEN MapSet(trackingData, "a", Email("a", now, FALSE))
                          ELSE trackingData
    /\ UNCHANGED <<now, crashed, trackingEvents, opens, sends, sweeps, tx,
                   nerr, quit>>
    /\ UNCHANGED hvars
    /\ UNCHANGED svars
    /\ UNCHANGED gvars
    /\ UNCHANGED evars
    /\ UNCHANGED orphans

\* A POST /api/send-email that fails at one of its steps: the handler
\* answers the error and returns; nothing was registered.
SendEmailFails(p, cause) ==
    /\ ~crashed
    /\ pc[p] = "idle"
    /\ Reply(cause, SendEmailStatus(cause)) \notin rejected
    /\ rejected' = rejected \cup {Reply(cause, SendEmailStatus(cause))}
    /\ UNCHANGED <<now, crashed, trackingData, trackingEvents, opens, sends,
                   sweeps, tx, nerr, quit>>
    /\ UNCHANGED hvars
    /\ UNCHANGED svars
    /\ UNCHANGED gvars
    /\ UNCHANGED evars
    /\ UNCHANGED orphans

\* SendTrackedEmail up to RegisterEmail: GenerateTrackingID returned id, the
\* pixel is embedded, SendEmail succeeded and the Email model is built with
\* ID the tracking identifier and SentAt time.Now().
SendTrackedEmail(p, id, notify) ==
    /\ ~crashed
    /\ pc[p] = "idle"
    /\ sends < MaxSends
    /\ sends' = sends + 1
    /\ pc' = [pc EXCEPT ![p] = "register"]
    /\ trackingID' = [trackingID EXCEPT ![p] = id]
    /\ email' = [email EXCEPT ![p] = Email(id, now, notify)]
    /\ UNCHANGED <<now, crashed, trackingData, trackingEvents, callNo, geoInfo,
                   exists, event, old, opens, sweeps>>
    /\ UNCHANGED svars
    /\ UNCHANGED gvars
    /\ UNCHANGED ovars
    /\ UNCHANGED evars

\* A caller other than SendTrackedEmail registers a message under an
\* identifier of its choice: the arguments of Tracker.RegisterEmail.
RegisterCall(p, id, notify) ==
    /\ ~crashed
    /\ pc[p] = "idle"
    /\ sends < MaxRegisters
    /\ sends' = sends + 1
    /\ pc' = [pc EXCEPT ![p] = "register"]
    /\ trackingID' = [trackingID EXCEPT ![p] = id]
    /\ email' = [email EXCEPT ![p] = Email(id, now, notify)]
    /\ UNCHANGED <<now, crashed, trackingData, trackingEvents, callNo, geoInfo,
                   exists, event, old, opens, sweeps>>
    /\ UNCHANGED svars
    /\ UNCHANGED gvars
    /\ UNCHANGED ovars
    /\ UNCHANGED evars

\* A faulty registration that also starts the identifier's history afresh.
RegisterAndClearHistory(p) ==
    /\ ~crashed
    /\ pc[p] = "register"
    /\ trackingData' = MapSet(trackingData, trackingID[p], email[p])
    /\ trackingEvents' = MapSet(trackingEvents, trackingID[p], <<>>)
    /\ Reset(p)
    /\ UNCHANGED <<now, crashed, opens, sends, sweeps, quit, rejected>>
    /\ UNCHANGED svars
    /\ UNCHANGED gvars
    /\ UNCHANGED evars
    /\ UNCHANGED orphans

\* A faulty registration that keeps the message an identifier already has.
KeepFirstRegistration(p) ==
    /\ ~crashed
    /\ pc[p] = "register"
    /\ trackingData' = IF trackingID[p] \in DOMAIN trackingData
                          THEN trackingData
                          ELSE MapSet(trackingData, trackingID[p], email[p])
    /\ Reset(p)
    /\ UNCHANGED <<now, crashed, trackingEvents, opens, sends, sweeps, quit,
                   rejected>>
    /\ UNCHANGED svars
    /\ UNCHANGED gvars
    /\ UNCHANGED evars
    /\ UNCHANGED orphans

\* Tracker.RegisterEmail: t.trackingData[trackingID] = email
RegisterEmail(p) ==
    /\ ~crashed
    /\ pc[p] = "register"
    /\ trackingData' = MapSet(trackingData, trackingID[p], email[p])
    /\ Reset(p)
    /\ UNCHANGED <<now, crashed, trackingEvents, opens, sends, sweeps, quit,
                   rejected>>
    /\ UNCHANGED svars
    /\ UNCHANGED gvars
    /\ UNCHANGED evars
    /\ UNCHANGED orphans

\* ------------------------------------------------------------ the sweeper
\* The ticker fires and CleanupOldEntries(30 days) starts:
\* cutoff := time.Now().Add(-maxAge), then the range over trackingData.
SweepStart ==
    /\ ~crashed
    /\ spc \in {"idle", "done"}
    /\ sweeps < MaxSweeps
    /\ cutoff' = now - MaxAge
    /\ spc' = "rangeData"
    /\ visited' = {}
    /\ pending' = DOMAIN trackingData
    /\ UNCHANGED <<now, crashed, trackingData, trackingEvents, opens, sends,
                   sweeps, cur, curEvents>>
    /\ UNCHANGED hvars
    /\ UNCHANGED gvars
    /\ UNCHANGED ovars
    /\ UNCHANGED evars

\* One iteration of "for id, email := range t.trackingData": the loop
\* produces a key it has not produced yet; a key added during the loop may be
\* produced or skipped.  The body tests email.SentAt.Before(cutoff).
RangeDataNext ==
    /\ ~crashed
    /\ spc = "rangeData"
    /\ \E id \in (DOMAIN trackingData) \ visited :
          /\ visited' = visited \cup {id}
          /\ pending' = pending \ {id}
          /\ cur' = id
          /\ spc' = IF Before(trackingData[id].SentAt, cutoff)
                    THEN "deleteData" ELSE "rangeData"
    /\ UNCHANGED <<now, crashed, trackingData, trackingEvents, opens, sends,
                   sweeps, cutoff, curEvents>>
    /\ UNCHANGED hvars
    /\ UNCHANGED gvars
    /\ UNCHANGED ovars
    /\ UNCHANGED evars

\* delete(t.trackingData, id)
DeleteData ==
    /\ ~crashed
    /\ spc = "deleteData"
    /\ trackingData' = MapDelete(trackingData, cur)
    /\ evictedNow' = evictedNow \cup {cur}
    /\ spc' = "deleteEvents"
    /\ UNCHANGED <<now, crashed, trackingEvents, opens, sends, sweeps, cutoff,
                   visited, pending, cur, curEvents, served, gone>>
    /\ UNCHANGED hvars
    /\ UNCHANGED ovars
    /\ UNCHANGED evars

\* delete(t.trackingEvents, id)
DeleteEvents ==
    /\ ~crashed
    /\ spc = "deleteEvents"
    /\ trackingEvents' = MapDelete(trackingEvents, cur)
    /\ gone' = gone \cup Events(EventsAt(trackingEvents, cur))
    /\ spc' = "rangeData"
    /\ UNCHANGED <<now, crashed, trackingData, opens, sends, sweeps, cutoff,
                   visited, pending, cur, curEvents, served, evictedNow>>
    /\ UNCHANGED hvars
    /\ UNCHANGED ovars
    /\ UNCHANGED evars

\* The first loop ends and "for trackingID, events := range t.trackingEvents"
\* starts.
RangeDataEnd ==
    /\ ~crashed
    /\ spc = "rangeData"
    /\ pending \cap DOMAIN trackingData = {}
    /\ spc' = "rangeEvents"
    /\ visited' = {}
    /\ pending' = DOMAIN trackingEvents
    /\ cur' = ""
    /\ UNCHANGED <<now, crashed, trackingData, trackingEvents, opens, sends,
                   sweeps, cutoff, curEvents>>
    /\ UNCHANGED hvars
    /\ UNCHANGED gvars
    /\ UNCHANGED ovars
    /\ UNCHANGED evars

\* One iteration of the second loop reads the loop variables.
RangeEventsNext ==
    /\ ~crashed
    /\ spc = "rangeEvents"
    /\ \E id \in (DOMAIN trackingEvents) \ visited :
          /\ visited' = visited \cup {id}
          /\ pending' = pending \ {id}
          /\ cur' = id
          /\ curEvents' = trackingEvents[id]
    /\ spc' = "trim"
    /\ UNCHANGED <<now, crashed, trackingData, trackingEvents, opens, sends,
                   sweeps, cutoff>>
    /\ UNCHANGED hvars
    /\ UNCHANGED gvars
    /\ UNCHANGED ovars
    /\ UNCHANGED evars

\* t.trackingEvents[trackingID] = recentEvents
TrimWrite ==
    /\ ~crashed
    /\ spc = "trim"
    /\ trackingEvents' =
          MapSet(trackingEvents, cur, RecentEvents(curEvents, cutoff))
    /\ curEvents' = <<>>
    /\ spc' = "rangeEvents"
    /\ UNCHANGED <<now, crashed, trackingData, opens, sends, sweeps, cutoff,
                   visited, pending, cur>>
    /\ UNCHANGED hvars
    /\ UNCHANGED gvars
    /\ UNCHANGED ovars
    /\ UNCHANGED evars

\* The second loop ends and CleanupOldEntries returns; the goroutine waits
\* for the next tick.
SweepEnd ==
    /\ ~crashed
    /\ spc = "rangeEvents"
    /\ pending \cap DOMAIN trackingEvents = {}
    /\ spc' = "done"
    /\ sweeps' = sweeps + 1
    /\ visited' = {}
    /\ pending' = {}
    /\ cur' = ""
    /\ evictedNow' = {}
    /\ gone' = {}
    /\ UNCHANGED <<now, crashed, trackingData, trackingEvents, opens, sends,
                   cutoff, curEvents, served>>
    /\ UNCHANGED hvars
    /\ UNCHANGED ovars
    /\ UNCHANGED evars

\* ---------------------------------------------------------------- the clock
Tick ==
    /\ ~crashed
    /\ now < MaxTime
    /\ now' = now + 1
    /\ UNCHANGED <<crashed, trackingData, trackingEvents, opens, sends, sweeps>>
    /\ UNCHANGED hvars
    /\ UNCHANGED svars
    /\ UNCHANGED gvars
    /\ UNCHANGED ovars
    /\ UNCHANGED evars

\* No request and no sweep is running.
NoneRunning ==
    /\ \A p \in Procs : pc[p] = "idle"
    /\ spc \in {"idle", "done"}

\* The clock advances by a tick of the retention scale: between operations.
SlowTick == NoneRunning /\ Tick

\* ------------------------------------------------- unsynchronised accesses
\* The access of the message table (trackingData) a handler stands at.
ReadsData(p) == pc[p] = "lookup"
WritesData(p) == pc[p] = "register"

\* The access of the history map (trackingEvents) a handler stands at.
ReadsEvents(p) == pc[p] = "appendRead"
WritesEvents(p) == pc[p] = "appendWrite"

\* The accesses the sweeper stands at.
SweeperReadsData == spc = "rangeData"
SweeperWritesData == spc = "deleteData"
SweeperReadsEvents == spc = "rangeEvents"
SweeperWritesEvents == spc \in {"deleteEvents", "trim"}

\* Two goroutines stand at accesses of the same Go map, one of them a write,
\* and nothing orders them: the Tracker has no lock.
GoMapRace ==
    \/ \E p \in Procs :
          /\ WritesData(p)
          /\ \/ SweeperReadsData \/ SweeperWritesData
             \/ \E q \in Procs \ {p} : ReadsData(q) \/ WritesData(q)
    \/ \E p \in Procs : ReadsData(p) /\ SweeperWritesData
    \/ \E p \in Procs :
          /\ WritesEvents(p)
          /\ \/ SweeperReadsEvents \/ SweeperWritesEvents
             \/ \E q \in Procs \ {p} : ReadsEvents(q) \/ WritesEvents(q)
    \/ \E p \in Procs : ReadsEvents(p) /\ SweeperWritesEvents

\* The runtime detects the concurrent map access and aborts the process
\* (throw("concurrent map writes") and the like are not recoverable): every
\* goroutine and the whole registry are gone.
Crash ==
    /\ ~crashed
    /\ GoMapRace
    /\ crashed' = TRUE
    /\ now' = 0
    /\ trackingData' = EmptyMap
    /\ trackingEvents' = EmptyMap
    /\ pc' = [p \in Procs |-> "dead"]
    /\ trackingID' = [p \in Procs |-> ""]
    /\ callNo' = [p \in Procs |-> 0]
    /\ geoInfo' = [p \in Procs |-> ""]
    /\ exists' = [p \in Procs |-> FALSE]
    /\ email' = [p \in Procs |-> NilEmail]
    /\ event' = [p \in Procs |-> NilEvent]
    /\ old' = [p \in Procs |-> <<>>]
    /\ opens' = 0
    /\ sends' = 0
    /\ sweeps' = 0
    /\ spc' = "dead"
    /\ cutoff' = 0
    /\ visited' = {}
    /\ pending' = {}
    /\ cur' = ""
    /\ curEvents' = <<>>
    /\ served' = {}
    /\ evictedNow' = {}
    /\ gone' = {}
    /\ tx' = [p \in Procs |-> "none"]
    /\ nerr' = [p \in Procs |-> ""]
    /\ rejected' = {}
    /\ orphans' = NoOrphans
    /\ UNCHANGED quit
    /\ UNCHANGED evars

\* ------------------------------------------------- the enrichment calls
\* A beacon request reaches TrackEmailOpen.
RequestArrives(req) ==
    /\ request = NoRequest
    /\ request' = req
    /\ ip' = NoIP
    /\ UNCHANGED <<now, crashed, trackingData, trackingEvents, opens, sends,
                   sweeps, userAgent, deviceInfo>>
    /\ UNCHANGED hvars
    /\ UNCHANGED svars
    /\ UNCHANGED gvars
    /\ UNCHANGED ovars

\* ip := utils.GetClientIP(r)
CallGetClientIP ==
    /\ request # NoRequest
    /\ ip = NoIP
    /\ ip' = GetClientIP(request)
    /\ UNCHANGED <<now, crashed, trackingData, trackingEvents, opens, sends,
                   sweeps, request, userAgent, deviceInfo>>
    /\ UNCHANGED hvars
    /\ UNCHANGED svars
    /\ UNCHANGED gvars
    /\ UNCHANGED ovars

\* userAgent := r.UserAgent()
UserAgentArrives(ua) ==
    /\ userAgent = {}
    /\ deviceInfo = NilDevice
    /\ userAgent' = ua
    /\ deviceInfo' = NilDevice
    /\ UNCHANGED <<now, crashed, trackingData, trackingEvents, opens, sends,
                   sweeps, request, ip>>
    /\ UNCHANGED hvars
    /\ UNCHANGED svars
    /\ UNCHANGED gvars
    /\ UNCHANGED ovars

\* deviceInfo := utils.ParseUserAgent(userAgent)
CallParseUserAgent ==
    /\ deviceInfo = NilDevice
    /\ deviceInfo' = ParseUserAgent(userAgent)
    /\ UNCHANGED <<now, crashed, trackingData, trackingEvents, opens, sends,
                   sweeps, request, ip, userAgent>>
    /\ UNCHANGED hvars
    /\ UNCHANGED svars
    /\ UNCHANGED gvars
    /\ UNCHANGED ovars

\* ---------------------------------------------------------------- shutdown
\* main receives SIGINT or SIGTERM from the quit channel.
Signal ==
    /\ ~crashed
    /\ quit = "no"
    /\ quit' = "signalled"
    /\ UNCHANGED <<now, crashed, trackingData, trackingEvents, opens, sends,
                   sweeps, tx, nerr, rejected>>
    /\ UNCHANGED hvars
    /\ UNCHANGED svars
    /\ UNCHANGED gvars
    /\ UNCHANGED evars
    /\ UNCHANGED orphans

\* server.Shutdown returns, at the latest when its five seconds are over,
\* and main returns: the process ends and with it every goroutine, wherever
\* it stands, and the registry it held in memory.
Exit ==
    /\ ~crashed
    /\ quit = "signalled"
    /\ quit' = "exited"
    /\ now' = 0
    /\ trackingData' = EmptyMap
    /\ trackingEvents' = EmptyMap
    /\ pc' = [p \in Procs |-> "dead"]
    /\ trackingID' = [p \in Procs |-> ""]
    /\ callNo' = [p \in Procs |-> 0]
    /\ geoInfo' = [p \in Procs |-> ""]
    /\ exists' = [p \in Procs |-> FALSE]
    /\ email' = [p \in Procs |-> NilEmail]
    /\ event' = [p \in Procs |-> NilEvent]
    /\ old' = [p \in Procs |-> <<>>]
    /\ opens' = 0
    /\ sends' = 0
    /\ sweeps' = 0
    /\ spc' = "dead"
    /\ cutoff' = 0
    /\ visited' = {}
    /\ pending' = {}
    /\ cur' = ""
    /\ curEvents' = <<>>
    /\ served' = {}
    /\ evictedNow' = {}
    /\ gone' = {}
    /\ tx' = [p \in Procs |-> "none"]
    /\ nerr' = [p \in Procs |-> ""]
    /\ rejected' = {}
    /\ orphans' = NoOrphans
    /\ UNCHANGED crashed
    /\ UNCHANGED evars

\* ------------------------------------------------------------ specification
\* A request arrives at handler goroutine p: its identifier is drawn from
\* ids, the outcome of its geography lookup from countries.
Request(p, ids, countries) ==
    \/ \E id \in ids, country \in countries : OpenStart(p, id, country)
    \/ \E id \in ids, notify \in BOOLEAN : SendTrackedEmail(p, id, notify)

\* Handler goroutine p runs the next statement of its request.
Handler(p) ==
    \/ Lookup(p)
    \/ AppendRead(p)
    \/ AppendWrite(p)
    \/ \E rendered \in BOOLEAN : Dispatch(p, rendered)
    \/ \E err \in NotifyErrors : SendNotification(p, err)
    \/ Respond(p)
    \/ RegisterEmail(p)

\* The transmission goroutines: the SMTP transport answers, or does not.
Transport ==
    \/ \E p \in Procs, ok \in BOOLEAN : Transmit(p, ok)
    \/ OrphanReturns

\* CleanupOldEntries, statement by statement.
Sweeper ==
    \/ SweepStart
    \/ RangeDataNext
    \/ DeleteData
    \/ DeleteEvents
    \/ RangeDataEnd
    \/ RangeEventsNext
    \/ TrimWrite
    \/ SweepEnd

\* The whole server: request handlers, the sweeper and the clock.
Next ==
    \/ \E p \in Procs : Request(p, Ids, Countries)
    \/ \E p \in Procs : Handler(p)
    \/ Sweeper
    \/ SlowTick
    \/ Transport
    \/ Crash

Spec == Init /\ [][Next]_vars

\* The beacon path alone, within one sweep interval (the ticker has not fired):
\* requests for one identifier, with every outcome of the geography lookup,
\* and a clock that advances while they run.
\* A runnable goroutine is eventually scheduled, and the lookup and the
\* notification return within their timeouts, so each handler's steps are
\* weakly fair; nothing obliges the runtime to detect a race.
OpenNext ==
    \/ \E p \in Procs : Request(p, {"a"}, Countries)
    \/ \E p \in Procs : Handler(p)
    \/ Tick
    \/ Transport
    \/ Crash

OpenSpec ==
    /\ Init
    /\ [][OpenNext]_vars
    /\ \A p \in Procs : WF_vars(Handler(p))

\* One request at a time on one identifier with the transport beside it: the
\* dispatch of a notification on its own.  The handler's steps are weakly
\* fair (the context's deadline always arrives); the transport's are not.
DispatchNext ==
    \/ Request(1, {"a"}, Countries)
    \/ Handler(1)
    \/ Transport

DispatchSpec ==
    /\ Init
    /\ [][DispatchNext]_vars
    /\ WF_vars(Handler(1))

\* The registration entry point alone: callers register messages, also
\* under identifiers already registered and also two at a time, while the
\* clock advances.
RegisterNext ==
    \/ \E p \in Procs, id \in Ids, notify \in BOOLEAN : RegisterCall(p, id, notify)
    \/ \E p \in Procs : RegisterEmail(p)
    \/ Tick
    \/ Crash

RegisterSpec == Init /\ [][RegisterNext]_vars

\* A request arrives at handler goroutine 1 while the server still accepts
\* connections: http.Server.Shutdown closes the listeners.
Arrival == quit = "no" /\ Request(1, {"a"}, Countries)

\* POST /api/send-email alone: requests that fail at one of their steps and
\* requests that go through to the registration.
SendNext ==
    \/ \E p \in Procs, cause \in SendFailures : SendEmailFails(p, cause)
    \/ \E p \in Procs, id \in Ids, notify \in BOOLEAN :
          SendTrackedEmail(p, id, notify)
    \/ \E p \in Procs : RegisterEmail(p)

SendSpec == Init /\ [][SendNext]_vars

\* Sends that fail beside the beacon path: one handler goroutine serves
\* opens, sends that go through and sends that fail at one of their steps.
FailedSendNext ==
    \/ Request(1, {"a"}, Countries)
    \/ Handler(1)
    \/ Transport
    \/ \E cause \in SendFailures : SendEmailFails(1, cause)

FailedSendSpec == Init /\ [][FailedSendNext]_vars

\* GetClientIP on its own, on every request of Requests.
ClientIPNext ==
    \/ \E req \in Requests : RequestArrives(req)
    \/ CallGetClientIP

ClientIPSpec == Init /\ [][ClientIPNext]_vars

\* ParseUserAgent on its own, on every user agent of UserAgents.
UserAgentNext ==
    \/ \E ua \in UserAgents : UserAgentArrives(ua)
    \/ CallParseUserAgent

UserAgentSpec == Init /\ [][UserAgentNext]_vars

\* One request at a time on either identifier: opens of a registered and of
\* an unregistered identifier, recorded side by side.
RecordNext ==
    \/ Request(1, Ids, Countries)
    \/ Handler(1)
    \/ Transport

RecordSpec == Init /\ [][RecordNext]_vars

\* The server from start to shutdown: requests arrive until the signal, the
\* requests in flight and the sweeper go on until the process ends.  After
\* the signal main always reaches its return.
ShutdownNext ==
    \/ Arrival
    \/ Handler(1)
    \/ Sweeper
    \/ SlowTick
    \/ Transport
    \/ Crash
    \/ Signal
    \/ Exit

ShutdownSpec ==
    /\ Init
    /\ [][ShutdownNext]_vars
    /\ WF_vars(Exit)

\* One request at a time on one identifier, with the sweeper and the clock
\* running beside it.
SoloNext ==
    \/ Request(1, {"a"}, Countries)
    \/ Handler(1)
    \/ Sweeper
    \/ SlowTick
    \/ Transport
    \/ Crash

SoloSpec == Init /\ [][SoloNext]_vars

\* ================================================================ properties
\* The history stored under an identifier.
History(id) == EventsAt(trackingEvents, id)

\* How often the event of call n is stored.
Copies(n) ==
    Cardinality({ik \in Ids \X (1..MaxOpens + 1) :
                    /\ ik[2] <= Len(History(ik[1]))
                    /\ History(ik[1])[ik[2]].ID = n})

\* No request is running and the sweeper has never run.
Quiescent ==
    /\ ~crashed
    /\ \A p \in Procs : pc[p] = "idle"
    /\ spc = "idle"

\* C1: once all TrackEmailOpen calls have finished (and no sweep has touched
\* the registry), the stored histories hold exactly one entry per call: the
\* event of every call made is stored once, none lost, none duplicated.
EveryOpenStoredOnce ==
    Quiescent => \A n \in 1..opens : Copies(n) = 1

\* A goroutine writes the message table while another one reads or writes it.
TableRace ==
    \/ \E p \in Procs :
          /\ WritesData(p)
          /\ \/ SweeperReadsData \/ SweeperWritesData
             \/ \E q \in Procs \ {p} : ReadsData(q) \/ WritesData(q)
    \/ SweeperWritesData /\ \E p \in Procs : ReadsData(p)

\* The event list of id is what handler p, or the sweeper, stands to read or
\* write.
ReadsList(p, id) == ReadsEvents(p) /\ trackingID[p] = id
WritesList(p, id) == WritesEvents(p) /\ trackingID[p] = id
SweeperReadsList(id) ==
    SweeperReadsEvents /\ id \in (DOMAIN trackingEvents) \ visited
SweeperWritesList(id) == SweeperWritesEvents /\ cur = id

\* A goroutine writes the event list of id while another one reads or writes
\* the same list.
ListRace(id) ==
    \/ \E p \in Procs :
          /\ WritesList(p, id)
          /\ \/ SweeperReadsList(id) \/ SweeperWritesList(id)
             \/ \E q \in Procs \ {p} : ReadsList(q, id) \/ WritesList(q, id)
    \/ SweeperWritesList(id) /\ \E p \in Procs : ReadsList(p, id)

\* C2: the registry operations are mutually exclusive per logical map: in no
\* reachable state does one goroutine write the message table, or the event
\* list of an identifier, while another goroutine reads or writes that same
\* map.
MutuallyExclusive ==
    /\ ~TableRace
    /\ \A id \in Ids : ~ListRace(id)

\* The sweeper writes the trimmed list of cur back.
TrimStep == spc = "trim" /\ spc' = "rangeEvents"

\* CleanupOldEntries returns.
SweepEndStep == spc = "rangeEvents" /\ spc' = "done"

\* C3: a sweep that interleaves with TrackEmailOpen calls leaves no torn
\* entry: when it writes an identifier's trimmed list back, every event
\* stored under that identifier (its append completed) whose timestamp is
\* within the retention horizon, and whose identifier's message this sweep
\* did not evict, is still in the history.
SweepKeepsRecentEvents ==
    [][TrimStep =>
          \A e \in Events(History(cur)) :
             (After(e.OpenedAt, cutoff) /\ cur \notin evictedNow)
                => e \in Events(EventsAt(trackingEvents', cur))]_vars

\* C4: immediately after CleanupOldEntries, run with cutoff now - horizon, no
\* message in the table has a SentAt before the cutoff, and no event of any
\* history, owned or ownerless, has an OpenedAt before the cutoff.
NothingOldAfterSweep ==
    [][SweepEndStep =>
          /\ \A id \in DOMAIN trackingData' :
                ~Before(trackingData'[id].SentAt, cutoff)
          /\ \A id \in DOMAIN trackingEvents' :
                \A e \in Events(trackingEvents'[id]) :
                   ~Before(e.OpenedAt, cutoff)]_vars

\* C5: CleanupOldEntries removes every message created before the cutoff
\* together with the entire history stored under its identifier: when it
\* returns, no message of the table precedes the cutoff, and none of the
\* events that were stored under an evicted message's identifier, however
\* recent, is in the registry.
EvictionRemovesMessageAndHistory ==
    [][SweepEndStep =>
          /\ \A id \in DOMAIN trackingData' :
                ~Before(trackingData'[id].SentAt, cutoff)
          /\ \A e \in gone :
                e \notin Events(EventsAt(trackingEvents', e.TrackingID))]_vars

\* Handler p stores its event.
AppendStep(p) == pc[p] = "appendWrite" /\ pc'[p] \in {"notify", "respond"}

\* C6: an evicted entry is never resurrected: an identifier enters the
\* message table only by RegisterEmail, and an event appended under an
\* identifier that has no message in the table (it was evicted and not
\* registered again) carries no owning-message reference and triggers no
\* notification, also when its TrackEmailOpen was in flight during the sweep.
EvictedStaysEvicted ==
    [][/\ \A id \in (DOMAIN trackingData') \ DOMAIN trackingData :
             \E p \in Procs :
                pc[p] = "register" /\ trackingID[p] = id /\ pc'[p] = "idle"
       /\ \A p \in Procs :
             (AppendStep(p) /\ trackingID[p] \notin DOMAIN trackingData)
                => (event[p].EmailID = "" /\ pc'[p] # "notify")]_vars

\* C7: at every observation point and for every identifier, stored or not,
\* GetTrackingStats returns the last element of GetAllTrackingEvents, and
\* returns nothing exactly when that sequence is empty.
LatestIsLastOfAll ==
    \A id \in Ids \cup {"doesnotexist"} :
       LET all == GetAllTrackingEvents(id)
       IN  /\ (GetTrackingStats(id) = <<>>) <=> (Len(all) = 0)
           /\ Len(all) > 0 => GetTrackingStats(id) = <<all[Len(all)]>>

\* C7 witness: a stored history holds two events, head and tail different,
\* while another identifier has none.
TwoEventHistory ==
    \E id \in Ids :
       /\ Len(GetAllTrackingEvents(id)) >= 2
       /\ GetAllTrackingEvents(id)[1] # GetAllTrackingEvents(id)[2]
       /\ GetTrackingStats(id) # <<>>
       /\ GetTrackingStats("doesnotexist") = <<>>

\* OpenedAt does not decrease from head to tail.
Ordered(events) ==
    \A j, k \in 1..Len(events) :
       j < k => events[j].OpenedAt <= events[k].OpenedAt

\* events is what a grows into by appends at the tail.
IsPrefix(a, events) ==
    /\ Len(a) <= Len(events)
    /\ \A k \in 1..Len(a) : events[k] = a[k]

\* C8: every history is ordered by OpenedAt, and a step that is not the
\* sweeper's only lets a history grow at its tail, also when TrackEmailOpen
\* calls for the same identifier overlap.
HistoryOrderedAppendOnly ==
    [][~crashed' =>
          \A id \in Ids :
             /\ Ordered(EventsAt(trackingEvents', id))
             /\ (spc' = spc) =>
                   IsPrefix(History(id), EventsAt(trackingEvents', id))]_vars

\* C9: a TrackEmailOpen whose identifier has no registered message (never
\* registered, or evicted) succeeds: its event has an empty EmailID, its
\* append adds exactly that one event to the identifier's history, it goes
\* straight on to the response without a notification, and it returns
\* having written the response.
OwnerlessOpenSucceeds ==
    [][\A p \in Procs :
          /\ (pc[p] = "lookup" /\ pc'[p] = "appendRead"
                 /\ trackingID[p] \notin DOMAIN trackingData)
                => (~exists'[p] /\ event'[p].EmailID = "")
          /\ (AppendStep(p) /\ ~exists[p])
                => /\ event[p].EmailID = ""
                   /\ EventsAt(trackingEvents', trackingID[p])
                         = Append(old[p], event[p])
                   /\ event[p] \notin Events(old[p])
                   /\ pc'[p] = "respond"
          /\ (pc[p] = "respond" /\ pc'[p] = "idle")
                => callNo[p] \in served']_vars

\* C9 witness: after the message of an identifier was registered and then
\* evicted by a sweep, an open of that identifier has been served and its
\* ownerless event is the history.
OwnerlessOpenAfterEviction ==
    /\ sends = 1
    /\ \A p \in Procs : pc[p] = "idle"
    /\ spc = "done"
    /\ \E id \in Ids :
          /\ id \notin DOMAIN trackingData
          /\ Len(History(id)) = 1
          /\ History(id)[1].EmailID = ""
          /\ History(id)[1].ID \in served

\* C10: every TrackEmailOpen call eventually writes the image response,
\* whatever the geography lookup and the notification dispatch return.
EveryOpenServed ==
    \A n \in 1..MaxOpens : (opens >= n) ~> (n \in served)

\* C11: a slow or cancelled notification never delays the beacon response:
\* whenever TrackEmailOpen waits for the dispatch of its open to return, the
\* image response of that open has already been written.
ResponseNotBehindDispatch ==
    \A p \in Procs : pc[p] = "select" => callNo[p] \in served

\* The dispatch of handler p returns to TrackEmailOpen.
DispatchReturns(p) == pc[p] = "select" /\ pc'[p] = "respond"

\* C12: when the deadline expires or the context is cancelled while the
\* transmission is still in flight, SendNotification returns the context's
\* error and leaves the transmission running; and a dispatch that waits
\* always returns, also when the transport never answers.
DispatchReturnsOnDeadline ==
    /\ [][\A p \in Procs :
             (DispatchReturns(p) /\ tx[p] = "running")
                => /\ nerr'[p] = "cancelled by context"
                   /\ orphans'.running = orphans.running + 1]_vars
    /\ \A p \in Procs : (pc[p] = "select") ~> (pc[p] # "select")

\* C12 witness: a dispatch has returned the context's error while its
\* transmission is still running.
ReturnedWhileTransmitting ==
    \E p \in Procs :
       /\ pc[p] = "respond"
       /\ nerr[p] = "cancelled by context"
       /\ orphans.running > 0

\* C13: a notification that fails, times out or is cancelled never changes
\* the registry: no step of the dispatch, of its return or of the
\* transmission changes the histories (the event of the open stays stored,
\* once) or the message table.
FailedNotificationKeepsRegistry ==
    [][(\/ \E p \in Procs : pc[p] \in {"notify", "select"} /\ pc'[p] # pc[p]
        \/ tx' # tx
        \/ orphans' # orphans)
       /\ ~crashed'
          => /\ trackingEvents' = trackingEvents
             /\ trackingData' = trackingData]_vars

\* C13 witness: a dispatch has returned an error and the event of its open
\* is stored once.
FailedNotificationReturned ==
    \E p \in Procs :
       /\ pc[p] = "respond"
       /\ nerr[p] \in {"smtp dispatch failed", "cancelled by context",
                        "template failed"}
       /\ Copies(callNo[p]) = 1

\* C14: TrackEmailOpen invokes the notification sender only when the lookup
\* found a message under the identifier and that message has NotifyOnOpen
\* set: exists and email are what the table held at the lookup, and a handler
\* stands in the dispatch, or has a transmission, only with both true.
NotifyOnlyWhenEnabled ==
    [][\A p \in Procs :
          /\ (pc[p] = "lookup" /\ pc'[p] = "appendRead")
                => /\ exists'[p] = (trackingID[p] \in DOMAIN trackingData)
                   /\ exists'[p] => email'[p] = trackingData[trackingID[p]]
          /\ (pc'[p] \in {"notify", "select"} \/ tx'[p] # "none")
                => (exists'[p] /\ email'[p].NotifyOnOpen)]_vars

\* C14 witness: an open of a registered message with the preference off has
\* reached its response without a dispatch.
OpenOfSilentMessage ==
    \E p \in Procs :
       /\ pc[p] = "respond"
       /\ exists[p]
       /\ ~email[p].NotifyOnOpen
       /\ nerr[p] = ""
       /\ tx[p] = "none"

\* C15: when the geography lookup fails, TrackEmailOpen still appends
\* exactly one event, with the geography empty, and goes on to the response:
\* no error reaches the caller.
GeoFailureStillRecords ==
    [][\A p \in Procs :
          /\ (pc[p] = "lookup" /\ pc'[p] = "appendRead" /\ geoInfo[p] = "")
                => event'[p].Country = ""
          /\ (AppendStep(p) /\ geoInfo[p] = "")
                => /\ event[p].Country = ""
                   /\ EventsAt(trackingEvents', trackingID[p])
                         = Append(old[p], event[p])
                   /\ event[p] \notin Events(old[p])
          /\ (pc[p] = "respond" /\ pc'[p] = "idle")
                => callNo[p] \in served']_vars

\* C15 witness: an open whose geography lookup failed has been served and
\* its event, without geography, is stored.
GeoFailedOpenServed ==
    \E id \in Ids :
       \E e \in Events(History(id)) : e.Country = "" /\ e.ID \in served

\* The message with identifier id has been handed to outbound send by a
\* SendTrackedEmail call that has not returned yet.
Sent(id) == \E p \in Procs : pc[p] = "register" /\ trackingID[p] = id

\* C16: the message is registered before it is handed to outbound send, so
\* every open that follows the send finds the message live: whenever a
\* message has been handed to outbound send, the registry holds it.
RegisteredBeforeSend ==
    \A id \in Ids : Sent(id) => id \in DOMAIN trackingData

\* C17: RegisterEmail on an identifier that already denotes a live message
\* replaces that message with the new one and raises no error: after the
\* call the table holds, for that identifier, the message just registered
\* and every other entry is as it was.
LastRegistrationWins ==
    [][\A p \in Procs :
          (pc[p] = "register" /\ pc'[p] = "idle")
             => /\ trackingData' = MapSet(trackingData, trackingID[p], email[p])
                /\ trackingData'[trackingID[p]] = email[p]
                /\ ~crashed']_vars

\* C17 witness: two registrations of one identifier at different times have
\* returned and the table holds one message, the later one.
RegisteredTwice ==
    /\ sends = 2
    /\ \A p \in Procs : pc[p] = "idle"
    /\ \E id \in Ids :
          /\ DOMAIN trackingData = {id}
          /\ trackingData[id].SentAt = now
          /\ now > 0

\* C18: a lookup query for an identifier with no recorded events answers
\* not-found, and the answer for an identifier whose history is present but
\* empty is a different one, from the query and from both accessors.
EmptyHistoryToldFromAbsent ==
    \A id \in Ids :
       /\ id \notin DOMAIN trackingEvents => getTrackingInfo(id) = NotFound
       /\ (id \in DOMAIN trackingEvents /\ trackingEvents[id] = <<>>)
             => /\ getTrackingInfo(id) # NotFound
                /\ GetTrackingStats(id) # <<>> \/ GetAllTrackingEvents(id) # <<>>

\* C19: when the process shuts down the sweeper loop stops: after the
\* shutdown signal no further CleanupOldEntries run starts, the sweeper is
\* between two runs when it ends, and it does end.
SweeperStopsOnShutdown ==
    /\ [][/\ (spc \in {"idle", "done"} /\ spc' = "rangeData") => quit = "no"
          /\ (quit' = "exited" /\ quit # "exited") => spc \in {"idle", "done"}]_vars
    /\ (quit = "signalled") ~> (spc = "dead")

\* C20 as claimed: the registration surface returns a hard error only when
\* identifier generation fails or the caller's input is malformed; no other
\* failure of the send path is surfaced as a hard error.
OnlyGenerationAndInputSurface ==
    \A r \in rejected :
       r.status >= 400 => r.cause \in {"bind", "recipient", "generate"}

\* C20 amended: the registration surface returns a hard error when the
\* body cannot be bound or a recipient is invalid (400) and when identifier
\* generation, embedding the pixel or the outbound send fails (500); a
\* request that fails registers nothing.
EveryStepFailureSurfaces ==
    /\ [](\A r \in rejected :
            \/ r.cause \in {"bind", "recipient"} /\ r.status = 400
            \/ r.cause \in {"generate", "embed", "smtp"} /\ r.status = 500)
    /\ [][rejected' # rejected
             => /\ trackingData' = trackingData
                /\ \A p \in Procs : pc'[p] = pc[p]]_vars

\* C20 witness: one request was refused for its recipient, another failed at
\* the outbound send, and a third went through and is registered.
RefusedFailedAndRegistered ==
    /\ Reply("recipient", 400) \in rejected
    /\ Reply("smtp", 500) \in rejected
    /\ trackingData # EmptyMap

\* C21: whenever the send path fails (generation, recipient validation,
\* embedding or the outbound send), the call returns an error and the
\* registry is unchanged: no message is registered and no history is
\* created or modified.
FailedSendLeavesRegistry ==
    [][rejected' # rejected
          => /\ \E r \in rejected' \ rejected :
                   /\ r.cause \in {"bind", "recipient", "generate", "embed", "smtp"}
                   /\ r.status >= 400
             /\ trackingData' = trackingData
             /\ trackingEvents' = trackingEvents]_vars

\* C21 witness: sends have failed at the generation and at the outbound
\* send while the registry holds a message and a recorded open.
SendsFailedBesideRegistry ==
    /\ Reply("generate", 500) \in rejected
    /\ Reply("smtp", 500) \in rejected
    /\ "a" \in DOMAIN trackingData
    /\ Len(History("a")) = 1

\* The forwarded-for parts of the request that are valid addresses and
\* neither private, loopback nor multicast.
PublicParts ==
    {i \in 1..Len(request.XFF) :
        /\ ParseIP(TrimSpace(request.XFF[i]))
        /\ ~IsPrivate(TrimSpace(request.XFF[i]))
        /\ ~IsLoopback(TrimSpace(request.XFF[i]))
        /\ ~IsMulticast(TrimSpace(request.XFF[i]))}

\* C22: GetClientIP returns the first acceptable candidate in the order
\* CF-Connecting-IP, X-Real-IP, rightmost public address of X-Forwarded-For,
\* transport peer address; a candidate is accepted only if it is a
\* syntactically valid IP address, and an invalid or missing candidate
\* falls through to the next source.
ClientIPIsFirstValidCandidate ==
    ip # NoIP =>
       /\ \E v \in {"8.8.8.8", "1.1.1.1", "2001:DB8::1", "10.0.0.1",
                    "127.0.0.1", "224.0.0.1"} : ParseIP(v) /\ ip \in {v, String(v)}
       /\ IF ParseIP(request.CF) THEN ip = String(request.CF)
          ELSE IF ParseIP(request.Real) THEN ip = String(request.Real)
          ELSE IF PublicParts # {}
               THEN ip = TrimSpace(request.XFF[
                             CHOOSE i \in PublicParts :
                                \A j \in PublicParts : j <= i])
          ELSE ip = SplitHostPort(request.RemoteAddr).host

\* The user agent handed to ParseUserAgent carries the token, in whatever
\* case.
Carries(token) ==
    \/ token \in userAgent
    \/ token = "chrome" /\ "Chrome" \in userAgent
    \/ token = "windows" /\ "Windows" \in userAgent

\* C23: ParseUserAgent classifies by ordered substring checks on the
\* lower-cased user agent, first match wins: device type Mobile, else
\* Tablet, else Desktop; browser Chrome, Firefox, Safari, Edge or Opera,
\* else Unknown; OS Windows, macOS, Linux, Android or iOS, else Unknown.  A
\* user agent with the Chrome and Windows tokens and no mobile or tablet
\* token yields Desktop, Chrome, Windows.
UserAgentClassifiedInOrder ==
    deviceInfo # NilDevice =>
       /\ deviceInfo.DeviceType = "Mobile" <=> Carries("mobile")
       /\ deviceInfo.DeviceType = "Tablet"
             <=> (Carries("tablet") /\ ~Carries("mobile"))
       /\ deviceInfo.DeviceType = "Desktop"
             <=> (~Carries("tablet") /\ ~Carries("mobile"))
       /\ deviceInfo.Browser = "Chrome" <=> Carries("chrome")
       /\ deviceInfo.Browser = "Firefox"
             <=> (Carries("firefox") /\ ~Carries("chrome"))
       /\ deviceInfo.Browser = "Safari"
             <=> (Carries("safari") /\ ~Carries("chrome") /\ ~Carries("firefox"))
       /\ deviceInfo.Browser = "Edge"
             <=> /\ Carries("edge")
                 /\ \A t \in {"chrome", "firefox", "safari"} : ~Carries(t)
       /\ deviceInfo.Browser = "Opera"
             <=> /\ Carries("opera")
                 /\ \A t \in {"chrome", "firefox", "safari", "edge"} : ~Carries(t)
       /\ deviceInfo.Browser = "Unknown"
             <=> \A t \in {"chrome", "firefox", "safari", "edge", "opera"} :
                    ~Carries(t)
       /\ deviceInfo.OS = "Windows" <=> Carries("windows")
       /\ deviceInfo.OS = "macOS" <=> (Carries("mac os") /\ ~Carries("windows"))
       /\ deviceInfo.OS = "Linux"
             <=> /\ Carries("linux")
                 /\ \A t \in {"windows", "mac os"} : ~Carries(t)
       /\ deviceInfo.OS = "Android"
             <=> /\ Carries("android")
                 /\ \A t \in {"windows", "mac os", "linux"} : ~Carries(t)
       /\ deviceInfo.OS = "iOS"
             <=> /\ Carries("iphone") \/ Carries("ipad")
                 /\ \A t \in {"windows", "mac os", "linux", "android"} :
                       ~Carries(t)
       /\ deviceInfo.OS = "Unknown"
             <=> \A t \in {"windows", "mac os", "linux", "android", "iphone",
                           "ipad"} : ~Carries(t)
       /\ (Carries("chrome") /\ Carries("windows")
              /\ ~Carries("mobile") /\ ~Carries("tablet"))
             => deviceInfo = DeviceInfo("Desktop", "Chrome", "Windows")

\* C23 witness: a user agent that writes Chrome and Windows with capitals,
\* and Safari beside them, has been classified Desktop, Chrome, Windows.
ChromeOnWindowsClassified ==
    /\ userAgent = {"Chrome", "Windows", "safari"}
    /\ deviceInfo = DeviceInfo("Desktop", "Chrome", "Windows")

\* C25: every event stored in the history of identifier i has TrackingID i,
\* and its EmailID is empty or the ID of the message registered under i when
\* the event was recorded; no event is in the histories of two identifiers.
EventBelongsToOneIdentifier ==
    /\ [](\A i \in Ids :
            \A k \in 1..Len(History(i)) :
               /\ History(i)[k].TrackingID = i
               /\ History(i)[k].EmailID \in {"", i}
               /\ \A j \in Ids \ {i} :
                     \A e \in Events(History(j)) : e.ID # History(i)[k].ID)
    /\ [][\A p \in Procs :
             (pc[p] = "lookup" /\ pc'[p] = "appendRead")
                => event'[p].EmailID =
                      IF trackingID[p] \in DOMAIN trackingData
                      THEN trackingData[trackingID[p]].ID
                      ELSE ""]_vars

\* C25 witness: one identifier has an event owned by its message, another
\* has an ownerless event.
OwnedAndOwnerlessEvents ==
    \E i \in Ids, j \in Ids :
       /\ i # j
       /\ \E e \in Events(History(i)) : e.EmailID = i
       /\ \E e \in Events(History(j)) : e.EmailID = ""

\* C26: within one TrackEmailOpen the steps happen in the order enrich,
\* append, dispatch: the call reaches the notification only by the step
\* that appends its event, built from the geography the lookup returned;
\* the sender is invoked only from there, and once it has been invoked the
\* call does not come back to it.
EnrichAppendThenDispatchOnce ==
    [][\A p \in Procs :
          /\ (pc'[p] = "notify" /\ pc[p] # "notify")
                => /\ pc[p] = "appendWrite"
                   /\ event[p].Country = geoInfo[p]
                   /\ event[p] \in Events(EventsAt(trackingEvents', trackingID[p]))
          /\ (tx'[p] = "running" /\ tx[p] # "running") => pc[p] = "notify"
          /\ (pc[p] = "notify" /\ pc'[p] # "notify")
                => pc'[p] \in {"select", "respond", "dead"}
          /\ pc[p] \in {"select", "respond"}
                => pc'[p] \in {"select", "respond", "idle", "dead"}]_vars

\* C26 witness: an open has been recorded and its notification has been
\* sent without an error.
NotifiedAfterAppend ==
    \E p \in Procs :
       /\ pc[p] = "respond"
       /\ nerr[p] = "nil"
       /\ Copies(callNo[p]) = 1

\* A step of CleanupOldEntries.
SweeperStep == spc # "dead" /\ spc' # "dead" /\ spc' # spc

\* C27: CleanupOldEntries removes nothing it should keep: every message
\* whose SentAt is not before the cutoff stays in the table unmodified, and
\* for every identifier whose message was not evicted, identifiers without
\* a message included, exactly the events opened after the cutoff remain,
\* in their original order.
SweepRemovesOnlyOld ==
    [][SweeperStep =>
          /\ \A id \in DOMAIN trackingData :
                ~Before(trackingData[id].SentAt, cutoff')
                   => /\ id \in DOMAIN trackingData'
                      /\ trackingData'[id] = trackingData[id]
          /\ \A id \in DOMAIN trackingEvents :
                IF TrimStep /\ id = cur
                THEN EventsAt(trackingEvents', id)
                        = SelectSeq(History(id),
                                    LAMBDA e : After(e.OpenedAt, cutoff))
                ELSE \/ EventsAt(trackingEvents', id) = History(id)
                     \/ /\ id \in evictedNow
                        /\ id \notin DOMAIN trackingEvents']_vars

\* Handler p's RegisterEmail returns.
RegisterStep(p) == pc[p] = "register" /\ pc'[p] = "idle"

OrphanStep ==
    /\ orphans'.running < orphans.running
    /\ crashed' = crashed
    /\ quit' = quit

\* C29: the transmission goroutine never blocks delivering its result: once
\* the dispatch has returned on its deadline, the abandoned goroutine ends in
\* the step in which its transport returns, because its channel of capacity
\* one takes the only value ever sent to it; no goroutine is ever blocked at
\* the send.
AbandonedTransmissionEnds ==
    /\ [](orphans.blocked = 0)
    /\ [][OrphanStep
            => orphans' = Orphans(orphans.running - 1, 0, TRUE)]_vars

\* C29 witness: a dispatch returned while its transmission was running, the
\* transport returned afterwards, and the goroutine has ended.
AbandonedTransmissionEnded ==
    /\ orphans.ended
    /\ orphans.running = 0
    /\ orphans.blocked = 0
    /\ \A p \in Procs : tx[p] = "none"

====
